---- MODULE Spec2Model ----
(***************************************************************************)
(* The managed DataHub sub-controller of the SDI observer operator         *)
(* (operator/controllers/managed-dh/controller.go): construction by        *)
(* NewManagedDhController, Start, Stop, ReconcileObs and Reconcile, with   *)
(* the goroutine that runs the underlying controller-runtime controller,   *)
(* the channel source that consumes chanReconcileObs, and the work queue.  *)
(* Around it, each under a specification of its own: the operator's main() *)
(* (BootSpec), the schema of the SdiObserver resource, the route policy    *)
(* (PolSpec), the claim of a namespace by the parent reconciler            *)
(* (ClaimSpec), the registry of sub-controllers (RegSpec), a second        *)
(* sub-controller in the same process (PairSpec), a caller that cancels    *)
(* the context it passed to Start (CallerSpec), the workers of the         *)
(* underlying controller (PoolSpec), the predicates of the watches         *)
(* (EvSpec) and the version gate of run-observer-template.sh (InstSpec).   *)
(***************************************************************************)
EXTENDS Integers, Sequences, FiniteSets, TLC

\* Number of observer resources that target the same namespace.
MaxObservers == 2

\* Number of parent reconciles that can be in the registry at the same time.
MaxParents == 2

\* Largest minor number of an OCP release or oc client the model follows.
MaxMinor == 4

\* Largest MaxConcurrentReconciles a caller passes to NewManagedDhController.
MaxWorkers == 2

\* Number of Start() calls the model follows.
MaxStarts == 2
\* Number of ReconcileObs() calls (parent notifications) the model follows.
MaxNotify == 2

\* The context created at controller.go:119 (obsContext); Start call i creates ctx_ i.
ObsCtx == 0
\* A factory that has not been given a stop channel yet.
NoCtx == -1

StartIds == 1..MaxStarts
Callers == 1..MaxNotify

\* The three informer factories appended to unstartedFactories.
Factories == {"dh", "core", "route"}
\* The five watches NewManagedDhController registers on the controller.
AllWatches == {"chan", "datahub", "service", "secret", "route"}
\* Request keys: the observer's own key (from a notification) and the key of a
\* watched object of the DataHub namespace.
Keys == {"obs", "watched"}

VARIABLES
    pcNew,              \* position of NewManagedDhController
    watches,            \* watches registered on the controller, in order
    unstartedFactories, \* dhController.unstartedFactories
    cancels,            \* dhController.cancels, as context ids
    chanClosed,         \* chanReconcileObs has been closed
    isStarted,          \* dhController.isStarted
    factoryStarts,      \* per factory, the number of Start invocations
    factoryStop,        \* per factory, the context whose Done() it runs under
    ctxCancelled,       \* the contexts that have been cancelled
    nStarts,            \* number of Start() calls begun
    pcStart,            \* position of the Start() call in progress
    gor,                \* per Start call, the goroutine running Controller.Start
    queueReady,         \* the underlying controller has made its queue and started its sources
    ctrlStarted,        \* the underlying controller has launched its workers
    queueShut,          \* the work queue has been shut down
    chanConsumer,       \* the channel source's sync loop
    pcObs,              \* per notification, the position of its ReconcileObs call
    queue,              \* the work queue (deduplicated, first in first out)
    workerPc,           \* position of the single worker
    curKey,             \* the request the worker is processing
    getOutcome,         \* outcome of client.Get in the Reconcile in progress
    reconcileErr,       \* the error the Reconcile in progress has returned
    pass,               \* what the Reconcile in progress has read and managed so far
    panic,              \* the unrecovered panic the process has died of, or "none"
    boot,               \* the operator's main(): its flags, its position, the manager's cache
    pol,                \* one application of the route policy: its inputs and its outcome
    claim,              \* the observers that target one namespace, and who has claimed it
    reg,                \* the registry of sub-controllers and the ensure calls in progress
    peer,               \* a second sub-controller, of another namespace, in the same process
    inst,               \* one run of the installer script: the versions, its position, its output
    pool,               \* the workers of an underlying controller built from given options
    ev                  \* one event on a watched object and what its handler has enqueued

vars == <<pcNew, watches, unstartedFactories, cancels, chanClosed, isStarted,
          factoryStarts, factoryStop, ctxCancelled, nStarts, pcStart, gor,
          queueReady, ctrlStarted, queueShut, chanConsumer, pcObs, queue,
          workerPc, curKey, getOutcome, reconcileErr, pass, panic, boot, pol, claim, reg, peer, inst,
          pool, ev>>

\* What lies outside the sub-controller; a step of the sub-controller leaves it alone.
auxVars == <<boot, pol, claim, reg, peer, inst, pool, ev>>

ctrlVars == <<watches, unstartedFactories, cancels, chanClosed, isStarted,
              factoryStarts, factoryStop, ctxCancelled, nStarts, pcStart>>
runVars == <<gor, queueReady, ctrlStarted, queueShut, chanConsumer>>
queueVars == <<queue, workerPc, curKey, getOutcome, reconcileErr, pass>>

\* r.namespacedName and r.dhNamespace, fixed by NewManagedDhController.
NmName == "obs"
DhNamespace == "dh-namespace"

\* The zero value of reconcile.Result.
ZeroResult == [Requeue |-> FALSE, RequeueAfter |-> 0]

\* No Reconcile is in progress: nothing was read, nothing was managed; the
\* named result rs of Reconcile starts as the zero Result.
NoPass == [read |-> "none", mgmt |-> "none", managedNs |-> "none",
           manageErr |-> "none", rs |-> ZeroResult]

\* main() is not being followed.
BootOff == [pc |-> "off", nsFlagGiven |-> FALSE, nsFlag |-> "", nsEnv |-> "",
            namespace |-> "", sdiNamespace |-> "", slcbNamespace |-> "",
            leaderElect |-> FALSE, cacheSet |-> FALSE, cacheNamespaces |-> {},
            managers |-> 0, exitCode |-> 0]

\* No route policy is being applied.
PolOff == [pc |-> "off", state |-> "Managed", exists |-> FALSE, owned |-> FALSE,
           matches |-> FALSE, apiOk |-> TRUE, before |-> <<>>,
           action |-> "none", existsAfter |-> FALSE, conditions |-> <<>>]

\* No observer targets the namespace.
ClaimOff == [workload |-> FALSE, routeExists |-> FALSE, owner |-> 0, cur |-> 0,
             obs |-> <<>>]

\* The registry is not in use.
RegOff == [lock |-> 0, handles |-> {}, live |-> <<>>, calls |-> <<>>]

\* There is no second sub-controller.
PeerOff == [running |-> FALSE, chanClosed |-> FALSE, ctxCancelled |-> FALSE,
            pcObs |-> "idle"]

\* The installer script is not run.
InstOff == [pc |-> "off", desired |-> [major |-> 4, minor |-> 0],
            client |-> [major |-> 4, minor |-> 0], stderr |-> "none",
            exitCode |-> 0, applied |-> {}]

\* No controller is being built from options.
PoolOff == [pc |-> "off", options |-> 0, workers |-> 0, queue |-> {}, busy |-> <<>>]

\* No event is being handled.
EvOff == [pc |-> "off", kind |-> "route", appComponent |-> "absent", app |-> "absent",
          name |-> "other", enqueued |-> <<>>]

\* Every part outside the sub-controller, but the part named v, is at rest.
OffExcept(v) ==
    /\ IF v = "boot" THEN TRUE ELSE boot = BootOff
    /\ IF v = "pol" THEN TRUE ELSE pol = PolOff
    /\ IF v = "claim" THEN TRUE ELSE claim = ClaimOff
    /\ IF v = "reg" THEN TRUE ELSE reg = RegOff
    /\ IF v = "peer" THEN TRUE ELSE peer = PeerOff
    /\ IF v = "inst" THEN TRUE ELSE inst = InstOff
    /\ IF v = "pool" THEN TRUE ELSE pool = PoolOff
    /\ IF v = "ev" THEN TRUE ELSE ev = EvOff

\* The process has died.
Panicked == panic # "none"

\* NewManagedDhController has returned a non-nil handle.
HandleOk == pcNew = "done"

\* The elements of a sequence.
Range(s) == {s[i] : i \in 1..Len(s)}

\* An informer factory runs from its Start until its stop channel is closed.
FactoryRunning(f) ==
    /\ factoryStarts[f] > 0
    /\ factoryStop[f] \notin ctxCancelled

\* The sub-controller before NewManagedDhController is called.
CtrlInit ==
    /\ pcNew = "newUnmanaged"
    /\ watches = <<>>
    /\ unstartedFactories = <<>>
    /\ cancels = <<>>
    /\ chanClosed = FALSE
    /\ isStarted = FALSE
    /\ factoryStarts = [f \in Factories |-> 0]
    /\ factoryStop = [f \in Factories |-> NoCtx]
    /\ ctxCancelled = {}
    /\ nStarts = 0
    /\ pcStart = "idle"
    /\ gor = [i \in StartIds |-> "none"]
    /\ queueReady = FALSE
    /\ ctrlStarted = FALSE
    /\ queueShut = FALSE
    /\ chanConsumer = [state |-> "none", ctx |-> NoCtx]
    /\ pcObs = [c \in Callers |-> "idle"]
    /\ queue = <<>>
    /\ workerPc = "off"
    /\ curKey = "none"
    /\ getOutcome = "none"
    /\ reconcileErr = "none"
    /\ pass = NoPass
    /\ panic = "none"

Init == CtrlInit /\ OffExcept("none")

(***************************************************************************)
(* startFactories (controller.go:137-147): nothing while isStarted is      *)
(* false; otherwise every unstarted factory is started with the stop       *)
(* channel and the list is emptied.  A factory keeps the stop channel of   *)
(* its first Start.                                                        *)
(***************************************************************************)
\* startFactories without the final c.unstartedFactories = nil.
startFactories_noClear(started, ch) ==
    IF ~started
    THEN UNCHANGED <<unstartedFactories, factoryStarts, factoryStop>>
    ELSE /\ factoryStarts' = [f \in Factories |->
                IF f \in Range(unstartedFactories)
                THEN factoryStarts[f] + 1 ELSE factoryStarts[f]]
         /\ factoryStop' = [f \in Factories |->
                IF f \in Range(unstartedFactories) /\ factoryStop[f] = NoCtx
                THEN ch ELSE factoryStop[f]]
         /\ UNCHANGED unstartedFactories

\* startFactories without the isStarted guard.
startFactories_always(started, ch) ==
    /\ factoryStarts' = [f \in Factories |->
            IF f \in Range(unstartedFactories)
            THEN factoryStarts[f] + 1 ELSE factoryStarts[f]]
    /\ factoryStop' = [f \in Factories |->
            IF f \in Range(unstartedFactories) /\ factoryStop[f] = NoCtx
            THEN ch ELSE factoryStop[f]]
    /\ unstartedFactories' = <<>>

startFactories(started, ch) ==
    IF ~started
    THEN UNCHANGED <<unstartedFactories, factoryStarts, factoryStop>>
    ELSE /\ factoryStarts' = [f \in Factories |->
                IF f \in Range(unstartedFactories)
                THEN factoryStarts[f] + 1 ELSE factoryStarts[f]]
         /\ factoryStop' = [f \in Factories |->
                IF f \in Range(unstartedFactories) /\ factoryStop[f] = NoCtx
                THEN ch ELSE factoryStop[f]]
         /\ unstartedFactories' = <<>>

(***************************************************************************)
(* NewManagedDhController (controller.go:81-135) and manageDhNamespace     *)
(* (controller.go:153-222), one action per call that can fail.             *)
(***************************************************************************)

\* controller.NewUnmanaged; on success the dhController and obsContext are made.
NewUnmanaged ==
    /\ ~Panicked
    /\ UNCHANGED auxVars
    /\ pcNew = "newUnmanaged"
    /\ \E ok \in BOOLEAN :
          pcNew' = IF ok THEN "watchChan" ELSE "failed"
    /\ UNCHANGED <<ctrlVars, runVars, pcObs, queueVars, panic>>

\* ctrl.Watch of the channel source; a failure cancels obsContext.
WatchChan ==
    /\ ~Panicked
    /\ UNCHANGED auxVars
    /\ pcNew = "watchChan"
    /\ \E ok \in BOOLEAN :
          IF ok
          THEN /\ watches' = Append(watches, "chan")
               /\ cancels' = Append(cancels, ObsCtx)
               /\ pcNew' = "clients"
               /\ UNCHANGED ctxCancelled
          ELSE /\ ctxCancelled' = ctxCancelled \cup {ObsCtx}
               /\ pcNew' = "failed"
               /\ UNCHANGED <<watches, cancels>>
    /\ UNCHANGED <<unstartedFactories, chanClosed, isStarted, factoryStarts,
                   factoryStop, nStarts, pcStart, runVars, pcObs, queueVars, panic>>

\* kubernetes.NewForConfig returns an error; the two ...OrDie constructors panic.
MakeClients ==
    /\ ~Panicked
    /\ UNCHANGED auxVars
    /\ pcNew = "clients"
    /\ \E r \in {"ok", "err", "die"} :
          /\ pcNew' = CASE r = "ok" -> "watchDataHub"
                        [] r = "err" -> "failed"
                        [] OTHER -> "panicked"
          /\ ctxCancelled' = IF r = "err" THEN ctxCancelled \cup {ObsCtx} ELSE ctxCancelled
          /\ panic' = IF r = "die" THEN "NewForConfigOrDie" ELSE "none"
    /\ UNCHANGED <<watches, unstartedFactories, cancels, chanClosed, isStarted,
                   factoryStarts, factoryStop, nStarts, pcStart, runVars, pcObs, queueVars>>

\* A failed Watch returns the error without obsContext being cancelled.
WatchStep_noCancel(at, newFactories, w, next) ==
    /\ ~Panicked
    /\ UNCHANGED auxVars
    /\ pcNew = at
    /\ unstartedFactories' = unstartedFactories \o newFactories
    /\ \E ok \in BOOLEAN :
          IF ok
          THEN /\ watches' = Append(watches, w)
               /\ pcNew' = next
          ELSE /\ pcNew' = "failed"
               /\ UNCHANGED watches
    /\ UNCHANGED <<cancels, chanClosed, isStarted, factoryStarts, factoryStop, ctxCancelled,
                   nStarts, pcStart, runVars, pcObs, queueVars, panic>>

\* One Watch of manageDhNamespace: the factories in newFactories are appended
\* first, then the watch w is registered; an error makes the constructor cancel
\* obsContext and return nil.
WatchStep(at, newFactories, w, next) ==
    /\ ~Panicked
    /\ UNCHANGED auxVars
    /\ pcNew = at
    /\ unstartedFactories' = unstartedFactories \o newFactories
    /\ \E ok \in BOOLEAN :
          IF ok
          THEN /\ watches' = Append(watches, w)
               /\ pcNew' = next
               /\ UNCHANGED ctxCancelled
          ELSE /\ ctxCancelled' = ctxCancelled \cup {ObsCtx}
               /\ pcNew' = "failed"
               /\ UNCHANGED watches
    /\ UNCHANGED <<cancels, chanClosed, isStarted, factoryStarts, factoryStop,
                   nStarts, pcStart, runVars, pcObs, queueVars, panic>>

WatchDataHub == WatchStep("watchDataHub", <<"dh">>, "datahub", "watchService")
WatchService == WatchStep("watchService", <<"core">>, "service", "watchSecret")
WatchSecret == WatchStep("watchSecret", <<>>, "secret", "watchRoute")
WatchRoute == WatchStep("watchRoute", <<"route">>, "route", "startFactories")

\* c.startFactories(ctx.Done()) at the end of manageDhNamespace, then return ctrl.
NewReturn ==
    /\ ~Panicked
    /\ UNCHANGED auxVars
    /\ pcNew = "startFactories"
    /\ startFactories(isStarted, ObsCtx)
    /\ pcNew' = "done"
    /\ UNCHANGED <<watches, cancels, chanClosed, isStarted, ctxCancelled,
                   nStarts, pcStart, runVars, pcObs, queueVars, panic>>

(***************************************************************************)
(* Start (controller.go:224-236).  The goroutine that runs the underlying  *)
(* controller is spawned first and runs concurrently with the rest of the  *)
(* call, so the call is two steps.  Lifecycle calls (Start, Stop) are      *)
(* issued one at a time by the parent reconciler.                          *)
(***************************************************************************)

\* ctx_, cancel := context.WithCancel(...); go func() { c.Controller.Start(ctx_) }()
StartSpawn ==
    /\ ~Panicked
    /\ UNCHANGED auxVars
    /\ HandleOk
    /\ pcStart = "idle"
    /\ nStarts < MaxStarts
    /\ nStarts' = nStarts + 1
    /\ gor' = [gor EXCEPT ![nStarts + 1] = "spawned"]
    /\ pcStart' = "spawned"
    /\ UNCHANGED <<pcNew, watches, unstartedFactories, cancels, chanClosed, isStarted,
                   factoryStarts, factoryStop, ctxCancelled, queueReady, ctrlStarted,
                   queueShut, chanConsumer, pcObs, queueVars, panic>>

\* Start waits until the underlying controller runs before it goes on.
StartFinish_waits ==
    /\ ~Panicked
    /\ UNCHANGED auxVars
    /\ pcStart = "spawned"
    /\ gor[nStarts] = "running"
    /\ isStarted' = TRUE
    /\ startFactories(isStarted', nStarts)
    /\ cancels' = Append(cancels, nStarts)
    /\ pcStart' = "idle"
    /\ UNCHANGED <<pcNew, watches, chanClosed, ctxCancelled, nStarts, runVars,
                   pcObs, queueVars, panic>>

\* c.isStarted = true; c.startFactories(ctx_.Done()); c.cancels = append(...); return nil
StartFinish ==
    /\ ~Panicked
    /\ UNCHANGED auxVars
    /\ pcStart = "spawned"
    /\ isStarted' = TRUE
    /\ startFactories(isStarted', nStarts)
    /\ cancels' = Append(cancels, nStarts)
    /\ pcStart' = "idle"
    /\ UNCHANGED <<pcNew, watches, chanClosed, ctxCancelled, nStarts, runVars,
                   pcObs, queueVars, panic>>

(***************************************************************************)
(* Stop (controller.go:238-243): close(c.chanReconcileObs), then every     *)
(* cancel function of c.cancels.  Closing a closed channel panics; closing *)
(* a channel on which a sender is blocked makes that sender panic.         *)
(***************************************************************************)
\* Only the first cancel function is called.
CancelFirst(cs) == IF cs = <<>> THEN {} ELSE {cs[1]}

\* for _, c := range c.cancels { c() }
CancelAll(cs) == Range(cs)

Stop ==
    /\ ~Panicked
    /\ UNCHANGED auxVars
    /\ HandleOk
    /\ pcStart = "idle"
    /\ IF chanClosed
       THEN /\ panic' = "close of closed channel"
            /\ UNCHANGED <<chanClosed, ctxCancelled, pcObs>>
       ELSE /\ chanClosed' = TRUE
            /\ ctxCancelled' = ctxCancelled \cup CancelAll(cancels)
            /\ pcObs' = [c \in Callers |->
                            IF pcObs[c] = "sending" THEN "panicked" ELSE pcObs[c]]
            /\ panic' = IF \E c \in Callers : pcObs[c] = "sending"
                        THEN "send on closed channel" ELSE "none"
    /\ UNCHANGED <<pcNew, watches, unstartedFactories, cancels, isStarted,
                   factoryStarts, factoryStop, nStarts, pcStart, runVars, queueVars>>

(***************************************************************************)
(* ReconcileObs (controller.go:149-151): a send on the unbuffered channel  *)
(* chanReconcileObs.  The send panics on a closed channel and otherwise    *)
(* blocks until the channel source receives it.  Notifications are         *)
(* numbered in the order of their calls.                                   *)
(***************************************************************************)
\* A ReconcileObs that returns at once and hands nothing to the channel.
ReconcileObs_drop(c) ==
    /\ ~Panicked
    /\ UNCHANGED auxVars
    /\ HandleOk
    /\ pcObs[c] = "idle"
    /\ \A d \in Callers : d < c => pcObs[d] # "idle"
    /\ IF chanClosed
       THEN /\ pcObs' = [pcObs EXCEPT ![c] = "panicked"]
            /\ panic' = "send on closed channel"
       ELSE /\ pcObs' = [pcObs EXCEPT ![c] = "delivered"]
            /\ UNCHANGED panic
    /\ UNCHANGED <<pcNew, ctrlVars, runVars, queueVars>>

ReconcileObs(c) ==
    /\ ~Panicked
    /\ UNCHANGED auxVars
    /\ HandleOk
    /\ pcObs[c] = "idle"
    /\ \A d \in Callers : d < c => pcObs[d] # "idle"
    /\ IF chanClosed
       THEN /\ pcObs' = [pcObs EXCEPT ![c] = "panicked"]
            /\ panic' = "send on closed channel"
       ELSE /\ pcObs' = [pcObs EXCEPT ![c] = "sending"]
            /\ UNCHANGED panic
    /\ UNCHANGED <<pcNew, ctrlVars, runVars, queueVars>>

(***************************************************************************)
(* The goroutine of Start (controller.go:226-230) running                  *)
(* c.Controller.Start(ctx_): the underlying controller refuses a second    *)
(* start, otherwise makes its queue and starts the registered sources (the *)
(* channel source's sync loop among them), waits for the informer caches   *)
(* to sync, launches its single worker and runs until ctx_ is cancelled.   *)
(* An error is logged and nothing else.                                    *)
(***************************************************************************)
CtrlStartBegin(g) ==
    /\ ~Panicked
    /\ UNCHANGED auxVars
    /\ gor[g] = "spawned"
    /\ \A h \in StartIds : gor[h] # "syncing"
    /\ IF ctrlStarted
       THEN /\ gor' = [gor EXCEPT ![g] = "rejected"]
            /\ UNCHANGED <<queueReady, chanConsumer>>
       ELSE /\ gor' = [gor EXCEPT ![g] = "syncing"]
            /\ queueReady' = TRUE
            /\ chanConsumer' = IF chanConsumer.state = "none"
                               THEN [state |-> "running", ctx |-> g]
                               ELSE chanConsumer
    /\ UNCHANGED <<pcNew, ctrlVars, ctrlStarted, queueShut, pcObs, queueVars, panic>>

\* WaitForSync of the informer sources: succeeds once every factory runs,
\* fails on a timeout or a cancelled context.
CtrlCacheSync(g) ==
    /\ ~Panicked
    /\ UNCHANGED auxVars
    /\ gor[g] = "syncing"
    /\ \/ /\ \A f \in Factories : FactoryRunning(f)
          /\ g \notin ctxCancelled
          /\ gor' = [gor EXCEPT ![g] = "running"]
          /\ ctrlStarted' = TRUE
          /\ workerPc' = "idle"
       \/ /\ gor' = [gor EXCEPT ![g] = "failed"]
          /\ UNCHANGED <<ctrlStarted, workerPc>>
    /\ UNCHANGED <<pcNew, ctrlVars, queueReady, queueShut, chanConsumer, pcObs,
                   queue, curKey, getOutcome, reconcileErr, pass, panic>>

\* ctx_ is cancelled: the queue is shut down.
CtrlShutdown(g) ==
    /\ ~Panicked
    /\ UNCHANGED auxVars
    /\ gor[g] = "running"
    /\ g \in ctxCancelled
    /\ ~queueShut
    /\ queueShut' = TRUE
    /\ UNCHANGED <<pcNew, ctrlVars, gor, queueReady, ctrlStarted, chanConsumer,
                   pcObs, queueVars, panic>>

\* The worker leaves once the shut-down queue is drained; Controller.Start returns.
WorkerExit ==
    /\ ~Panicked
    /\ UNCHANGED auxVars
    /\ workerPc = "idle"
    /\ queueShut
    /\ queue = <<>>
    /\ workerPc' = "exited"
    /\ gor' = [g \in StartIds |-> IF gor[g] = "running" THEN "exited" ELSE gor[g]]
    /\ UNCHANGED <<pcNew, ctrlVars, queueReady, ctrlStarted, queueShut, chanConsumer,
                   pcObs, queue, curKey, getOutcome, reconcileErr, pass, panic>>

(***************************************************************************)
(* The work queue: Add drops a key that is already queued and everything   *)
(* after shutdown.  A key added while it is processed waits in the queue   *)
(* for the single worker.                                                  *)
(***************************************************************************)
Enqueue(k) ==
    queue' = IF queueShut \/ k \in Range(queue) THEN queue ELSE Append(queue, k)

\* The sync loop of the channel source (the watch registered at
\* controller.go:120-122) receives a notification and
\* EnqueueRequestForObject adds the observer's key.
SyncLoopRecv(c) ==
    /\ ~Panicked
    /\ UNCHANGED auxVars
    /\ chanConsumer.state = "running"
    /\ ~chanClosed
    /\ pcObs[c] = "sending"
    /\ pcObs' = [pcObs EXCEPT ![c] = "delivered"]
    /\ Enqueue("obs")
    /\ UNCHANGED <<pcNew, ctrlVars, runVars, workerPc, curKey, getOutcome,
                   reconcileErr, pass, panic>>

\* The sync loop ends when its context is done or the channel is closed.
SyncLoopStop ==
    /\ ~Panicked
    /\ UNCHANGED auxVars
    /\ chanConsumer.state = "running"
    /\ chanClosed \/ chanConsumer.ctx \in ctxCancelled
    /\ chanConsumer' = [chanConsumer EXCEPT !.state = "stopped"]
    /\ UNCHANGED <<pcNew, ctrlVars, gor, queueReady, ctrlStarted, queueShut,
                   pcObs, queueVars, panic>>

\* An event of a running informer whose handler the controller has registered
\* (the watches of controller.go:177-218) adds the object's key.
WatchEvent ==
    /\ ~Panicked
    /\ UNCHANGED auxVars
    /\ queueReady
    /\ \E f \in Factories : FactoryRunning(f)
    /\ Enqueue("watched")
    /\ UNCHANGED <<pcNew, ctrlVars, runVars, pcObs, workerPc, curKey, getOutcome,
                   reconcileErr, pass, panic>>

(***************************************************************************)
(* The worker and Reconcile (controller.go:257-270).                       *)
(***************************************************************************)

(***************************************************************************)
(* The schema of the SdiObserver resource (the CRD).  The API server       *)
(* applies the defaults, then validates, then stores; the Go client        *)
(* decodes a missing string field as the empty string.                     *)
(***************************************************************************)
ManagementStates == {"Managed", "Unmanaged", "Removed"}

\* The Go zero value of a management state.
ZeroState == ""

\* A route spec as submitted: missing, or an object with or without managementState.
RouteInputs ==
    {[present |-> FALSE, managementState |-> "omitted"]}
        \cup [present : {TRUE},
              managementState : {"omitted", "Other"} \cup ManagementStates]

\* The resources a client can submit; one without spec has no route specs.
Submitted ==
    {o \in [hasSpec : BOOLEAN, vsystemRoute : RouteInputs, slcbRoute : RouteInputs] :
        ~o.hasSpec => ~o.vsystemRoute.present /\ ~o.slcbRoute.present}

\* default: Managed, applied to a route object that is there.
DefaultRoute(r) ==
    IF r.present /\ r.managementState = "omitted"
    THEN [r EXCEPT !.managementState = "Managed"]
    ELSE r

Defaulted(o) ==
    [o EXCEPT !.vsystemRoute = DefaultRoute(@), !.slcbRoute = DefaultRoute(@)]

\* enum: Managed, Unmanaged, Removed.
ValidRoute(r) == r.present /\ r.managementState \in ManagementStates

\* required: slcbRoute, vsystemRoute; this is the schema of spec, and spec
\* itself is not required.
Valid(o) == o.hasSpec => ValidRoute(o.vsystemRoute) /\ ValidRoute(o.slcbRoute)

\* The resources the API server stores.
Admitted == {Defaulted(o) : o \in {s \in Submitted : Valid(Defaulted(s))}}

\* obs.Spec.VsystemRoute.ManagementState of a stored resource after decoding.
Decoded(r) == IF r.present THEN r.managementState ELSE ZeroState

StoredVsystemStates == {Decoded(o.vsystemRoute) : o \in Admitted}

\* What manageVsystemRoute can return: nil or an error.
ManageVsystemRouteResults == {"nil", "err"}

\* controller.go:262: the read is of r.namespacedName, whatever the request.
ReadTarget_request(req) == req

ReadTarget(req) == NmName

\* Reconcile never returns right after the read.
ReturnsAfterGet_never(o) == FALSE

\* controller.go:262: Reconcile returns right after the read exactly when the
\* read failed with something else than not-found.
ReturnsAfterGet(o) == o # "ok" /\ o # "notfound"

\* The worker takes the next request and calls Reconcile.
WorkerGet ==
    /\ ~Panicked
    /\ UNCHANGED auxVars
    /\ workerPc = "idle"
    /\ queue # <<>>
    /\ curKey' = Head(queue)
    /\ queue' = Tail(queue)
    /\ workerPc' = "get"
    /\ pcObs' = IF Head(queue) = "obs"
                THEN [c \in Callers |->
                        IF pcObs[c] = "delivered" THEN "reconciled" ELSE pcObs[c]]
                ELSE pcObs
    /\ UNCHANGED <<pcNew, ctrlVars, runVars, getOutcome, reconcileErr, pass, panic>>

\* r.client.Get(ctx, r.namespacedName, obs): Reconcile returns the error of
\* the read, or goes on to manage the route.
ReconcileGet ==
    /\ ~Panicked
    /\ UNCHANGED auxVars
    /\ workerPc = "get"
    /\ \E o \in {"ok", "notfound", "error"} :
          /\ getOutcome' = o
          /\ \E m \in (IF o = "ok" THEN StoredVsystemStates ELSE {ZeroState}) :
                pass' = [pass EXCEPT !.read = ReadTarget(curKey), !.mgmt = m]
          /\ IF ReturnsAfterGet(o)
             THEN /\ reconcileErr' = "get"
                  /\ workerPc' = "returned"
             ELSE /\ workerPc' = "manage"
                  /\ UNCHANGED reconcileErr
    /\ UNCHANGED <<pcNew, ctrlVars, runVars, pcObs, queue, curKey, panic>>

\* The error of the route management is logged and dropped.
ReturnedError_dropped(e) == "nil"

\* controller.go:265-269: the error of manageVsystemRoute is assigned to the
\* named result err, logged if not nil, and returned.
ReturnedError(e) == e

\* err = manageVsystemRoute(ctx, r.scheme, r.client, obs, &obs.Spec.VsystemRoute,
\* r.dhNamespace); return
ReconcileManage ==
    /\ ~Panicked
    /\ UNCHANGED auxVars
    /\ workerPc = "manage"
    /\ \E r \in ManageVsystemRouteResults :
          /\ pass' = [pass EXCEPT !.managedNs = DhNamespace, !.manageErr = r]
          /\ reconcileErr' = ReturnedError(r)
    /\ workerPc' = "returned"
    /\ UNCHANGED <<pcNew, ctrlVars, runVars, pcObs, queue, curKey, getOutcome, panic>>

\* Reconcile returns the zero Result: the request is requeued exactly when the
\* returned error is not nil.
Requeued == reconcileErr # "nil"

\* A nil error with a Result that asks for it requeues as well.
RequeueByResult == pass.rs.Requeue \/ pass.rs.RequeueAfter > 0

\* The underlying controller requeues the request or forgets it.
WorkerDone ==
    /\ ~Panicked
    /\ UNCHANGED auxVars
    /\ workerPc = "returned"
    /\ queue' = IF (Requeued \/ RequeueByResult) /\ ~queueShut /\ curKey \notin Range(queue)
                THEN Append(queue, curKey) ELSE queue
    /\ curKey' = "none"
    /\ getOutcome' = "none"
    /\ reconcileErr' = "none"
    /\ pass' = NoPass
    /\ workerPc' = "idle"
    /\ UNCHANGED <<pcNew, ctrlVars, runVars, pcObs, panic>>

Next ==
    \/ NewUnmanaged
    \/ WatchChan
    \/ MakeClients
    \/ WatchDataHub
    \/ WatchService
    \/ WatchSecret
    \/ WatchRoute
    \/ NewReturn
    \/ StartSpawn
    \/ StartFinish
    \/ Stop
    \/ \E c \in Callers : ReconcileObs(c)
    \/ \E g \in StartIds : CtrlStartBegin(g)
    \/ \E g \in StartIds : CtrlCacheSync(g)
    \/ \E g \in StartIds : CtrlShutdown(g)
    \/ WorkerExit
    \/ \E c \in Callers : SyncLoopRecv(c)
    \/ SyncLoopStop
    \/ WatchEvent
    \/ WorkerGet
    \/ ReconcileGet
    \/ ReconcileManage
    \/ WorkerDone

Spec == Init /\ [][Next]_vars

(***************************************************************************)
(* The scheduler runs every goroutine that can take a step: a call in      *)
(* progress continues, the goroutine of Start, the sync loop and the       *)
(* worker advance.  Whether and when the parent calls Start, Stop or       *)
(* ReconcileObs, and whether a cluster object changes, is left open.       *)
(***************************************************************************)
Fairness ==
    /\ WF_vars(NewUnmanaged) /\ WF_vars(WatchChan) /\ WF_vars(MakeClients)
    /\ WF_vars(WatchDataHub) /\ WF_vars(WatchService) /\ WF_vars(WatchSecret)
    /\ WF_vars(WatchRoute) /\ WF_vars(NewReturn)
    /\ WF_vars(StartFinish)
    /\ \A g \in StartIds : WF_vars(CtrlStartBegin(g))
    /\ \A g \in StartIds : WF_vars(CtrlCacheSync(g))
    /\ \A g \in StartIds : WF_vars(CtrlShutdown(g))
    /\ WF_vars(WorkerExit)
    /\ \A c \in Callers : WF_vars(SyncLoopRecv(c))
    /\ WF_vars(SyncLoopStop)
    /\ WF_vars(WorkerGet)
    /\ WF_vars(ReconcileGet)
    /\ WF_vars(ReconcileManage)
    /\ WF_vars(WorkerDone)

FairSpec == Spec /\ Fairness

(***************************************************************************)
(* main() of the operator: the namespace flags, the choice of the          *)
(* manager's cache, the creation of the manager and the setup of the       *)
(* parent reconciler.  A namespace flag left unspecified is the empty      *)
(* string, which as a cache namespace stands for all namespaces.           *)
(***************************************************************************)
AllNamespaces == ""

\* The values of the namespace, sdi-namespace and slcb-namespace flags.
NamespaceArgs == {AllNamespaces, "operator"}
SdiNamespaceArgs == {AllNamespaces, "operator", "sdi", "slcb"}
SlcbNamespaceArgs == {AllNamespaces, "operator", "sdi", "slcb"}

\* The command line and the environment of the process: the namespace flag,
\* given or not, the NAMESPACE variable, and the other flags' values.
BootInputs ==
    {b \in [pc : {"start"}, nsFlagGiven : BOOLEAN, nsFlag : NamespaceArgs,
            nsEnv : NamespaceArgs, namespace : {""},
            sdiNamespace : SdiNamespaceArgs, slcbNamespace : SlcbNamespaceArgs,
            leaderElect : BOOLEAN, cacheSet : {FALSE}, cacheNamespaces : {{}},
            managers : {0}, exitCode : {0}] :
        ~b.nsFlagGiven => b.nsFlag = ""}

\* The environment variable is used even when the flag is given.
FlagValue_envOnly(given, flag, env) == env

\* flag.StringVar(&namespace, "namespace", os.Getenv(namespaceEnvVar), ...):
\* the flag's value when given, its default otherwise.
FlagValue(given, flag, env) == IF given THEN flag ELSE env

\* flag.Parse()
ParseFlags ==
    /\ boot.pc = "start"
    /\ boot' = [boot EXCEPT !.pc = "parsed",
                            !.namespace = FlagValue(boot.nsFlagGiven, boot.nsFlag,
                                                    boot.nsEnv)]
    /\ UNCHANGED <<pcNew, ctrlVars, runVars, pcObs, queueVars, panic,
                   pol, claim, reg, peer, inst, pool, ev>>

\* os.Exit(1)
Exit1(b) == [b EXCEPT !.pc = "exit", !.exitCode = 1]

\* if len(sdiNamespace) == 0 || len(slcbNamespace) == 0
UsesMultiNamespacedCache(sdi, slcb) == sdi = "" \/ slcb = ""

\* if len(namespace) == 0 { ...; os.Exit(1) }
CheckNamespace ==
    /\ boot.pc = "parsed"
    /\ boot' = IF boot.namespace = "" THEN Exit1(boot) ELSE [boot EXCEPT !.pc = "checked"]
    /\ UNCHANGED <<pcNew, ctrlVars, runVars, pcObs, queueVars, panic,
                   pol, claim, reg, peer, inst, pool, ev>>

\* mgrCache stays nil or becomes
\* cache.MultiNamespacedCacheBuilder([]string{namespace, sdiNamespace, slcbNamespace}).
ChooseCache ==
    /\ boot.pc = "checked"
    /\ boot' = IF UsesMultiNamespacedCache(boot.sdiNamespace, boot.slcbNamespace)
               THEN [boot EXCEPT !.pc = "cache", !.cacheSet = TRUE,
                                 !.cacheNamespaces = {boot.namespace, boot.sdiNamespace,
                                                      boot.slcbNamespace}]
               ELSE [boot EXCEPT !.pc = "cache"]
    /\ UNCHANGED <<pcNew, ctrlVars, runVars, pcObs, queueVars, panic,
                   pol, claim, reg, peer, inst, pool, ev>>

\* ctrl.NewManager(..., ctrl.Options{..., NewCache: mgrCache}); an error exits.
NewManager ==
    /\ boot.pc = "cache"
    /\ \E ok \in BOOLEAN :
          boot' = IF ok THEN [boot EXCEPT !.pc = "manager", !.managers = @ + 1]
                        ELSE Exit1(boot)
    /\ UNCHANGED <<pcNew, ctrlVars, runVars, pcObs, queueVars, panic,
                   pol, claim, reg, peer, inst, pool, ev>>

\* r.SetupWithManager(mgr) and the health checks; an error exits.
SetupWithManager ==
    /\ boot.pc = "manager"
    /\ \E ok \in BOOLEAN :
          boot' = IF ok THEN [boot EXCEPT !.pc = "setup"] ELSE Exit1(boot)
    /\ UNCHANGED <<pcNew, ctrlVars, runVars, pcObs, queueVars, panic,
                   pol, claim, reg, peer, inst, pool, ev>>

\* mgr.Start(ctrl.SetupSignalHandler()) runs the manager until it returns.
ManagerStart ==
    /\ boot.pc = "setup"
    /\ boot' = [boot EXCEPT !.pc = "started"]
    /\ UNCHANGED <<pcNew, ctrlVars, runVars, pcObs, queueVars, panic,
                   pol, claim, reg, peer, inst, pool, ev>>

\* The manager has been created with its cache.
ManagerCreated == boot.pc \in {"manager", "setup", "started"}

\* The namespaces of the manager's cache: with a nil NewCache the manager
\* builds the default cache, which spans all namespaces.
CacheScope == IF boot.cacheSet THEN boot.cacheNamespaces ELSE {AllNamespaces}

BootInit == CtrlInit /\ OffExcept("boot") /\ boot \in BootInputs

BootNext ==
    \/ ParseFlags
    \/ CheckNamespace
    \/ ChooseCache
    \/ NewManager
    \/ SetupWithManager
    \/ ManagerStart

BootSpec == BootInit /\ [][BootNext]_vars

(***************************************************************************)
(* The route reconciliation policy that manageVsystemRoute applies to a    *)
(* route spec: from the management state and what is observed of the       *)
(* route, the action on the route and the conditions of the route status.  *)
(***************************************************************************)
Condition(t, s) == [type |-> t, status |-> s]

\* What can be observed of the route: absent, or there with or without this
\* system's ownership marker and matching the desired spec or not.
RouteObservations ==
    {o \in [exists : BOOLEAN, owned : BOOLEAN, matches : BOOLEAN] :
        ~o.exists => ~o.owned /\ ~o.matches}

\* The conditions the route status carries before the pass.
ConditionsBefore ==
    {<<>>, <<Condition("Exposed", "True")>>, <<Condition("Degraded", "True")>>}

\* An Unmanaged route is deleted like a Removed one.
RouteAction_unmanagedDeletes(state, exists, matches) ==
    IF state = "Managed"
    THEN (IF ~exists THEN "create" ELSE IF matches THEN "noop" ELSE "patch")
    ELSE (IF exists THEN "delete" ELSE "noop")

\* The action of the policy table.
RouteAction(state, exists, matches) ==
    CASE state = "Managed" ->
            (IF ~exists THEN "create" ELSE IF matches THEN "noop" ELSE "patch")
      [] state = "Unmanaged" -> "noop"
      [] state = "Removed" -> (IF exists THEN "delete" ELSE "noop")

\* Whether the route is there after the action, which the cluster carried out or refused.
ExistsAfter(exists, action, apiOk) ==
    CASE action = "create" -> apiOk
      [] action = "delete" -> ~apiOk
      [] OTHER -> exists

\* A successful removal leaves a False condition behind.
ResultConditions_falseOnRemoval(state, action, apiOk, before) ==
    CASE state = "Unmanaged" -> <<>>
      [] state = "Removed" ->
            (IF action = "delete"
             THEN (IF apiOk THEN <<Condition("Exposed", "False")>>
                            ELSE <<Condition("Degraded", "True")>>)
             ELSE before)
      [] OTHER -> <<Condition("Exposed", "True")>>

\* The resulting conditions of the policy table.
ResultConditions(state, action, apiOk, before) ==
    CASE state = "Unmanaged" -> <<>>
      [] state = "Removed" ->
            (IF action = "delete" /\ ~apiOk THEN <<Condition("Degraded", "True")>>
                                            ELSE <<>>)
      [] state = "Managed" ->
            (IF ~apiOk /\ action # "noop" THEN <<Condition("Degraded", "True")>>
             ELSE IF action = "create" THEN <<Condition("Exposed", "Unknown")>>
             ELSE <<Condition("Exposed", "True")>>)

\* The inputs of a pass: a management state the schema admits, the observed
\* route, whether the cluster carries out the action, the earlier conditions.
PolInputs ==
    {[pc |-> "input", state |-> s, exists |-> o.exists, owned |-> o.owned,
      matches |-> o.matches, apiOk |-> ok, before |-> b,
      action |-> "none", existsAfter |-> o.exists, conditions |-> b] :
        s \in ManagementStates, o \in RouteObservations, ok \in BOOLEAN,
        b \in ConditionsBefore}

\* One pass of the policy over the route.
ManageRoute ==
    /\ pol.pc = "input"
    /\ LET a == RouteAction(pol.state, pol.exists, pol.matches)
       IN pol' = [pol EXCEPT !.pc = "done",
                             !.action = a,
                             !.existsAfter = ExistsAfter(pol.exists, a, pol.apiOk),
                             !.conditions = ResultConditions(pol.state, a, pol.apiOk,
                                                             pol.before)]
    /\ UNCHANGED <<pcNew, ctrlVars, runVars, pcObs, queueVars, panic,
                   boot, claim, reg, peer, inst, pool, ev>>

PolInit == CtrlInit /\ OffExcept("pol") /\ pol \in PolInputs

PolNext == ManageRoute

PolSpec == PolInit /\ [][PolNext]_vars

(***************************************************************************)
(* The parent reconciler and the claim of a namespace: several observer    *)
(* resources target the same namespace; the parent's single worker         *)
(* reconciles one of them at a time; the first one reconciled claims the   *)
(* namespace, the others become backups.                                   *)
(***************************************************************************)
Observers == 1..MaxObservers

\* An observer whose reconcile is pending.
NewObserver(s) ==
    [state |-> s, pc |-> "pending", reconciled |-> FALSE, ref |-> FALSE,
     conditions |-> {}, mutated |-> FALSE]

\* The namespace with or without a DataHub and a vsystem route, and the observers.
ClaimInputs ==
    {[workload |-> w, routeExists |-> e, owner |-> 0, cur |-> 0,
      obs |-> [i \in Observers |-> NewObserver(ss[i])]] :
        w \in BOOLEAN, e \in BOOLEAN, ss \in [Observers -> ManagementStates]}

\* Every observer may take the namespace.
ClaimFree_always(owner, i) == TRUE

\* First claim wins: the namespace is free, or this observer holds it already.
ClaimFree(owner, i) == owner = 0 \/ owner = i

\* The worker takes the request of observer i and fetches the resource.
ParentFetch(i) ==
    /\ claim.cur = 0
    /\ claim.obs[i].pc = "pending"
    /\ claim' = [claim EXCEPT !.cur = i, !.obs[i].pc = "fetched"]
    /\ UNCHANGED <<pcNew, ctrlVars, runVars, pcObs, queueVars, panic,
                   boot, pol, reg, peer, inst, pool, ev>>

\* The claim is decided: the winner refers to the DataHub if there is one; a
\* loser has no reference, carries Backup=True, and its pass ends here.
ParentClaim(i) ==
    /\ claim.cur = i
    /\ claim.obs[i].pc = "fetched"
    /\ claim' =
         IF ClaimFree(claim.owner, i)
         THEN [claim EXCEPT !.owner = i,
                            !.cur = IF claim.workload THEN i ELSE 0,
                            !.obs[i].ref = claim.workload,
                            !.obs[i].conditions = {},
                            !.obs[i].reconciled = IF claim.workload THEN @ ELSE TRUE,
                            !.obs[i].pc = IF claim.workload THEN "route" ELSE "done"]
         ELSE [claim EXCEPT !.cur = 0,
                            !.obs[i].ref = FALSE,
                            !.obs[i].conditions = {Condition("Backup", "True")},
                            !.obs[i].reconciled = TRUE,
                            !.obs[i].pc = "done"]
    /\ UNCHANGED <<pcNew, ctrlVars, runVars, pcObs, queueVars, panic,
                   boot, pol, reg, peer, inst, pool, ev>>

\* The winner's pass goes on to the vsystem route of the DataHub, by the route policy.
ParentRoute(i) ==
    /\ claim.cur = i
    /\ claim.obs[i].pc = "route"
    /\ \E matches \in BOOLEAN :
         LET a == RouteAction(claim.obs[i].state, claim.routeExists,
                              claim.routeExists /\ matches)
         IN claim' = [claim EXCEPT !.cur = 0,
                                   !.routeExists = ExistsAfter(@, a, TRUE),
                                   !.obs[i].mutated = @ \/ a # "noop",
                                   !.obs[i].reconciled = TRUE,
                                   !.obs[i].pc = "done"]
    /\ UNCHANGED <<pcNew, ctrlVars, runVars, pcObs, queueVars, panic,
                   boot, pol, reg, peer, inst, pool, ev>>

\* A watch event or a resync triggers observer i again.
ParentRetrigger(i) ==
    /\ claim.obs[i].pc = "done"
    /\ claim' = [claim EXCEPT !.obs[i].pc = "pending"]
    /\ UNCHANGED <<pcNew, ctrlVars, runVars, pcObs, queueVars, panic,
                   boot, pol, reg, peer, inst, pool, ev>>

ClaimInit == CtrlInit /\ OffExcept("claim") /\ claim \in ClaimInputs

ClaimNext ==
    \/ \E i \in Observers : ParentFetch(i)
    \/ \E i \in Observers : ParentClaim(i)
    \/ \E i \in Observers : ParentRoute(i)
    \/ \E i \in Observers : ParentRetrigger(i)

ClaimSpec == ClaimInit /\ [][ClaimNext]_vars

\* The observers whose ManagedReference is set.
Referring == {i \in Observers : claim.obs[i].ref}

(***************************************************************************)
(* The registry of sub-controllers: ensure(namespace) under the            *)
(* registry-wide mutex looks the handle up and, if there is none,          *)
(* constructs a sub-controller, starts it and stores its handle;           *)
(* stop(namespace) stops the sub-controller and removes the entry.         *)
(***************************************************************************)
Parents == 1..MaxParents

TargetNamespaces == {"ns-a", "ns-b"}

\* An empty registry and no call in progress.
RegEmpty ==
    [lock |-> 0, handles |-> {}, live |-> [n \in TargetNamespaces |-> 0],
     calls |-> [p \in Parents |-> [pc |-> "idle", ns |-> "ns-a"]]]

\* The registry is entered without the mutex.
LockFree_always(lock) == TRUE

\* The mutex is free.
LockFree(lock) == lock = 0

\* ensure(ns) of parent reconcile p begins: the mutex is taken.
EnsureLock(p, ns) ==
    /\ reg.calls[p].pc = "idle"
    /\ LockFree(reg.lock)
    /\ reg' = [reg EXCEPT !.lock = p, !.calls[p] = [pc |-> "lookup", ns |-> ns]]
    /\ UNCHANGED <<pcNew, ctrlVars, runVars, pcObs, queueVars, panic,
                   boot, pol, claim, peer, inst, pool, ev>>

\* If a handle exists for the namespace it is returned; otherwise a
\* sub-controller is to be constructed.
EnsureLookup(p) ==
    /\ reg.calls[p].pc = "lookup"
    /\ reg' = [reg EXCEPT !.calls[p].pc = IF reg.calls[p].ns \in reg.handles
                                          THEN "return" ELSE "construct"]
    /\ UNCHANGED <<pcNew, ctrlVars, runVars, pcObs, queueVars, panic,
                   boot, pol, claim, peer, inst, pool, ev>>

\* NewManagedDhController, Start, and the handle is stored; a failed
\* construction stores nothing and is retried by a later reconcile.
EnsureConstruct(p) ==
    /\ reg.calls[p].pc = "construct"
    /\ \E ok \in BOOLEAN :
         reg' = IF ok
                THEN [reg EXCEPT !.live[reg.calls[p].ns] = @ + 1,
                                 !.handles = @ \cup {reg.calls[p].ns},
                                 !.calls[p].pc = "return"]
                ELSE [reg EXCEPT !.calls[p].pc = "return"]
    /\ UNCHANGED <<pcNew, ctrlVars, runVars, pcObs, queueVars, panic,
                   boot, pol, claim, peer, inst, pool, ev>>

\* ensure or stop returns: the mutex is released.
RegistryReturn(p) ==
    /\ reg.calls[p].pc = "return"
    /\ reg' = [reg EXCEPT !.lock = IF @ = p THEN 0 ELSE @, !.calls[p].pc = "idle"]
    /\ UNCHANGED <<pcNew, ctrlVars, runVars, pcObs, queueVars, panic,
                   boot, pol, claim, peer, inst, pool, ev>>

\* stop(ns) of parent reconcile p begins: the mutex is taken.
StopLock(p, ns) ==
    /\ reg.calls[p].pc = "idle"
    /\ LockFree(reg.lock)
    /\ reg' = [reg EXCEPT !.lock = p, !.calls[p] = [pc |-> "stop", ns |-> ns]]
    /\ UNCHANGED <<pcNew, ctrlVars, runVars, pcObs, queueVars, panic,
                   boot, pol, claim, peer, inst, pool, ev>>

\* The sub-controller is stopped and its entry removed; nothing happens if
\* there is no entry.
RegistryStop(p) ==
    /\ reg.calls[p].pc = "stop"
    /\ reg' = IF reg.calls[p].ns \in reg.handles
              THEN [reg EXCEPT !.handles = @ \ {reg.calls[p].ns},
                               !.live[reg.calls[p].ns] = @ - 1,
                               !.calls[p].pc = "return"]
              ELSE [reg EXCEPT !.calls[p].pc = "return"]
    /\ UNCHANGED <<pcNew, ctrlVars, runVars, pcObs, queueVars, panic,
                   boot, pol, claim, peer, inst, pool, ev>>

RegInit == CtrlInit /\ OffExcept("reg") /\ reg = RegEmpty

RegNext ==
    \/ \E p \in Parents, ns \in TargetNamespaces : EnsureLock(p, ns)
    \/ \E p \in Parents : EnsureLookup(p)
    \/ \E p \in Parents : EnsureConstruct(p)
    \/ \E p \in Parents, ns \in TargetNamespaces : StopLock(p, ns)
    \/ \E p \in Parents : RegistryStop(p)
    \/ \E p \in Parents : RegistryReturn(p)

RegSpec == RegInit /\ [][RegNext]_vars

\* An ensure call has found the handle of its namespace in the registry.
EnsureFoundHandle(p) ==
    /\ reg.calls[p].pc = "lookup"
    /\ reg.calls[p].ns \in reg.handles

(***************************************************************************)
(* Two sub-controllers in one process.  The second one, of another         *)
(* namespace, has been constructed and started; it has its own channel,    *)
(* contexts, factories and queue (the fields of its own dhController), so  *)
(* no step of the first one writes to it.  Both run in the same process:   *)
(* an unrecovered panic in a goroutine of the first ends the goroutines of *)
(* the second as well.                                                     *)
(***************************************************************************)
\* The second sub-controller after its Start: channel open, contexts not
\* cancelled, factories and worker running.
PeerStarted == [running |-> TRUE, chanClosed |-> FALSE, ctxCancelled |-> FALSE,
                pcObs |-> "idle"]

\* ReconcileObs on the second sub-controller: the send on its channel.
PeerReconcileObs ==
    /\ ~Panicked
    /\ peer.running
    /\ peer.pcObs = "idle"
    /\ peer' = [peer EXCEPT !.pcObs = "sending"]
    /\ UNCHANGED <<pcNew, ctrlVars, runVars, pcObs, queueVars, panic,
                   boot, pol, claim, reg, inst, pool, ev>>

\* Its sync loop receives the notification, its worker reconciles it.
PeerDeliver ==
    /\ ~Panicked
    /\ peer.running
    /\ ~peer.chanClosed
    /\ peer.pcObs = "sending"
    /\ peer' = [peer EXCEPT !.pcObs = "reconciled"]
    /\ UNCHANGED <<pcNew, ctrlVars, runVars, pcObs, queueVars, panic,
                   boot, pol, claim, reg, inst, pool, ev>>

\* The process dies of the panic: nothing of the second sub-controller runs any more.
ProcessExit ==
    /\ Panicked
    /\ peer.running
    /\ peer' = [peer EXCEPT !.running = FALSE]
    /\ UNCHANGED <<pcNew, ctrlVars, runVars, pcObs, queueVars, panic,
                   boot, pol, claim, reg, inst, pool, ev>>

PairInit == CtrlInit /\ OffExcept("peer") /\ peer = PeerStarted

PairNext ==
    \/ Next
    \/ PeerReconcileObs
    \/ PeerDeliver
    \/ ProcessExit

PairSpec == PairInit /\ [][PairNext]_vars

(***************************************************************************)
(* The context that the caller passes to Start.  Start does not use it:    *)
(* ctx_ is derived from context.Background().  Cancelling a context        *)
(* cancels the contexts derived from it.                                   *)
(***************************************************************************)
BackgroundCtx == -2
CallerCtx == MaxStarts + 1

\* ctx_ is derived from the context passed to Start.
RunCtxParent_caller == CallerCtx

\* ctx_, cancel := context.WithCancel(context.Background())
RunCtxParent == BackgroundCtx

\* The contexts that the cancellation of c cancels.
CancelledWith(c) == {c} \cup {i \in 1..nStarts : RunCtxParent = c}

\* The caller cancels the context it has passed to Start.
CancelCallerCtx ==
    /\ ~Panicked
    /\ UNCHANGED auxVars
    /\ nStarts > 0
    /\ CallerCtx \notin ctxCancelled
    /\ ctxCancelled' = ctxCancelled \cup CancelledWith(CallerCtx)
    /\ UNCHANGED <<pcNew, watches, unstartedFactories, cancels, chanClosed, isStarted,
                   factoryStarts, factoryStop, nStarts, pcStart, runVars, pcObs,
                   queueVars, panic>>

CallerNext ==
    \/ Next
    \/ CancelCallerCtx

CallerSpec == Init /\ [][CallerNext]_vars

(***************************************************************************)
(* The installer script (observer/run-observer-template.sh) from its       *)
(* client/server version gate on: OCP_MINOR_RELEASE and the version of the *)
(* oc client are of the form major.minor; the gate compares the parts      *)
(* after the first dot; then the namespaces are created and the template   *)
(* is processed and applied.                                               *)
(***************************************************************************)
Versions == [major : {3, 4}, minor : 0..MaxMinor]

\* The script has set OCP_MINOR_RELEASE and read the client's version.
InstInputs ==
    [pc : {"gate"}, desired : Versions, client : Versions, stderr : {"none"},
     exitCode : {0}, applied : {{}}]

\* ${OCP_MINOR_RELEASE#*.} and ${ocpClientVersion#*.}: what follows the first dot.
AfterDot(v) == v.minor

\* define abs(i) { if (i < 0) return (-i); return (i) }
Abs(i) == IF i < 0 THEN -i ELSE i

\* minorMismatch
MinorMismatch(desired, client) == Abs(AfterDot(desired) - AfterDot(client))

\* The gate never fails: every mismatch above 1 is a warning.
GateOutcome_neverFails(d) == IF d \in {0, 1} THEN "none" ELSE "warning"

\* case "$minorMismatch" in 0 | 1) ;; 2) warning ;; *) error; exit 1 ;; esac
GateOutcome(d) ==
    CASE d \in {0, 1} -> "none"
      [] d = 2 -> "warning"
      [] OTHER -> "error"

\* The version gate.
VersionGate ==
    /\ inst.pc = "gate"
    /\ LET o == GateOutcome(MinorMismatch(inst.desired, inst.client))
       IN inst' = [inst EXCEPT !.stderr = o,
                               !.pc = IF o = "error" THEN "exit" ELSE "passed",
                               !.exitCode = IF o = "error" THEN 1 ELSE 0]
    /\ UNCHANGED <<pcNew, ctrlVars, runVars, pcObs, queueVars, panic,
                   boot, pol, claim, reg, peer, pool, ev>>

\* oc create namespace for the projects that do not exist; failures are ignored.
CreateNamespaces ==
    /\ inst.pc = "passed"
    /\ \E made \in SUBSET {"namespaces"} :
          inst' = [inst EXCEPT !.pc = "created", !.applied = @ \cup made]
    /\ UNCHANGED <<pcNew, ctrlVars, runVars, pcObs, queueVars, panic,
                   boot, pol, claim, reg, peer, pool, ev>>

\* oc process ... | oc apply -f -
ApplyTemplate ==
    /\ inst.pc = "created"
    /\ \E ok \in BOOLEAN :
          inst' = IF ok THEN [inst EXCEPT !.pc = "done", !.applied = @ \cup {"template"}]
                        ELSE [inst EXCEPT !.pc = "exit", !.exitCode = 1]
    /\ UNCHANGED <<pcNew, ctrlVars, runVars, pcObs, queueVars, panic,
                   boot, pol, claim, reg, peer, pool, ev>>

InstInit == CtrlInit /\ OffExcept("inst") /\ inst \in InstInputs

InstNext ==
    \/ VersionGate
    \/ CreateNamespaces
    \/ ApplyTemplate

InstSpec == InstInit /\ [][InstNext]_vars

(***************************************************************************)
(* The workers of the underlying controller.  NewManagedDhController is    *)
(* given controller.Options by its caller and builds the controller with   *)
(* controller.Options{Reconciler: r, Log: logger}; controller-runtime runs *)
(* as many workers as MaxConcurrentReconciles says, one if it is not       *)
(* positive, and never hands a key that is being processed to a second     *)
(* worker.                                                                 *)
(***************************************************************************)
WorkerIds == 1..MaxWorkers

\* The caller's options.MaxConcurrentReconciles; 0 is the unset value.
PoolInputs ==
    [pc : {"new"}, options : 0..MaxWorkers, workers : {0}, queue : {{}},
     busy : {[w \in WorkerIds |-> "idle"]}]

\* The caller's options are handed on to controller.NewUnmanaged.
PassedOptions_forwarded(options) == options

\* MaxConcurrentReconciles of the controller.Options literal given to
\* controller.NewUnmanaged: not set, whatever the caller's options are.
PassedOptions(options) == 0

\* if options.MaxConcurrentReconciles <= 0 { options.MaxConcurrentReconciles = 1 }
WorkersOf(m) == IF m <= 0 THEN 1 ELSE m

\* The controller is built and started: its workers are launched.
PoolBuild ==
    /\ pool.pc = "new"
    /\ pool' = [pool EXCEPT !.pc = "running",
                            !.workers = WorkersOf(PassedOptions(pool.options))]
    /\ UNCHANGED <<pcNew, ctrlVars, runVars, pcObs, queueVars, panic,
                   boot, pol, claim, reg, peer, inst, ev>>

\* A watch enqueues a request; there is one key per watch.
PoolAdd(k) ==
    /\ pool.pc = "running"
    /\ k \notin pool.queue
    /\ pool' = [pool EXCEPT !.queue = @ \cup {k}]
    /\ UNCHANGED <<pcNew, ctrlVars, runVars, pcObs, queueVars, panic,
                   boot, pol, claim, reg, peer, inst, ev>>

\* Worker w takes a request that no worker is processing and calls Reconcile.
PoolGet(w, k) ==
    /\ pool.pc = "running"
    /\ w <= pool.workers
    /\ pool.busy[w] = "idle"
    /\ k \in pool.queue
    /\ \A v \in WorkerIds : pool.busy[v] # k
    /\ pool' = [pool EXCEPT !.queue = @ \ {k}, !.busy[w] = k]
    /\ UNCHANGED <<pcNew, ctrlVars, runVars, pcObs, queueVars, panic,
                   boot, pol, claim, reg, peer, inst, ev>>

\* Reconcile returns.
PoolDone(w) ==
    /\ pool.busy[w] # "idle"
    /\ pool' = [pool EXCEPT !.busy[w] = "idle"]
    /\ UNCHANGED <<pcNew, ctrlVars, runVars, pcObs, queueVars, panic,
                   boot, pol, claim, reg, peer, inst, ev>>

PoolInit == CtrlInit /\ OffExcept("pool") /\ pool \in PoolInputs

PoolNext ==
    \/ PoolBuild
    \/ \E k \in AllWatches : PoolAdd(k)
    \/ \E w \in WorkerIds, k \in AllWatches : PoolGet(w, k)
    \/ \E w \in WorkerIds : PoolDone(w)

PoolSpec == PoolInit /\ [][PoolNext]_vars

\* The workers that are executing Reconcile.
Executing == {w \in DOMAIN pool.busy : pool.busy[w] # "idle"}

(***************************************************************************)
(* The watches of manageDhNamespace and their predicates: an event on an   *)
(* object of the DataHub namespace goes through the predicates of its      *)
(* watch, and the handler, handler.EnqueueRequestForObject for all of      *)
(* them, enqueues a request with the object's key.                         *)
(***************************************************************************)
\* The name that the Secret watch selects (its value is not in this file).
VsystemCaBundleSecretName == "vsystemCaBundleSecretName"

\* An event on a DataHub, Service, Secret or Route: the two labels of the
\* object that the Service watch looks at, and the object's name.
WatchedEvents ==
    [pc : {"event"}, kind : {"datahub", "service", "secret", "route"},
     appComponent : {"vsystem", "other", "absent"},
     app : {"vsystem", "other", "absent"},
     name : {VsystemCaBundleSecretName, "other"}, enqueued : {<<>>}]

\* One of the two labels is enough.
LabelsMatch_either(o) == o.appComponent = "vsystem" \/ o.app = "vsystem"

\* lsPred: MatchLabels datahub.sap.com/app-component = vsystem and
\* datahub.sap.com/app = vsystem.
LabelsMatch(o) == o.appComponent = "vsystem" /\ o.app = "vsystem"

\* The predicates of the watch of the object's kind.
PassesPredicates(o) ==
    CASE o.kind = "service" -> LabelsMatch(o)
      [] o.kind = "secret" -> o.name = VsystemCaBundleSecretName
      [] OTHER -> TRUE

\* The event is filtered and handled: a request with the object's key is
\* enqueued, and nothing else is done.
HandleEvent ==
    /\ ev.pc = "event"
    /\ ev' = [ev EXCEPT !.pc = "handled",
                        !.enqueued = IF PassesPredicates(ev)
                                     THEN <<[namespace |-> DhNamespace, name |-> ev.name]>>
                                     ELSE <<>>]
    /\ UNCHANGED <<pcNew, ctrlVars, runVars, pcObs, queueVars, panic,
                   boot, pol, claim, reg, peer, inst, pool>>

EvInit == CtrlInit /\ OffExcept("ev") /\ ev \in WatchedEvents

EvSpec == EvInit /\ [][HandleEvent]_vars

(***************************************************************************)
(* Properties.                                                             *)
(***************************************************************************)

\* The first Start() call has returned.
StartReturned == nStarts > 1 \/ (nStarts = 1 /\ pcStart = "idle")

\* Stop() has returned and the process lives.
StopReturned == chanClosed /\ ~Panicked

\* C1: Stop is idempotent: a Stop in any lifecycle state never panics, and the
\* notification channel is closed once; in particular no Stop dies closing a
\* channel that an earlier Stop closed.
C1_StopIdempotent == panic # "close of closed channel"

\* C2: no send is ever attempted on the notification channel once it is
\* closed: no ReconcileObs, in flight at the close or issued after it, dies
\* sending on the closed channel.
C2_NoSendOnClosed ==
    /\ panic # "send on closed channel"
    /\ \A c \in Callers : pcObs[c] # "panicked"

\* C3: every ReconcileObs call returns in finite time, in every lifecycle
\* state: a notification that is being sent is eventually not being sent.
C3_NotifyReturns ==
    \A c \in Callers : (pcObs[c] = "sending") ~> (pcObs[c] # "sending")

\* The worker takes a request and a Reconcile begins.
ReconcileBegins == workerPc = "idle" /\ workerPc' = "get"

\* C4: after Stop() has returned no informer factory of the controller is
\* running and no Reconcile of the controller begins, also for a Stop before
\* the first Start and a Start after Stop.
C4_NothingRunsAfterStop ==
    [][/\ StopReturned' => \A f \in Factories : ~FactoryRunning(f)'
       /\ StopReturned => ~ReconcileBegins]_vars

\* C5: a Stop that returns leaves cancelled the watch context of the
\* notification channel and the run context of every preceding Start call, and
\* closed the stop channel of every informer factory that was started.
C5_StopCancelsAll ==
    [][(~chanClosed /\ chanClosed') =>
          /\ ObsCtx \in ctxCancelled'
          /\ \A i \in 1..nStarts : i \in ctxCancelled'
          /\ \A f \in Factories : factoryStarts[f] > 0 => ~FactoryRunning(f)']_vars

\* C5 witness: Stop has returned after two Start calls and everything is cancelled.
C5_Witness ==
    /\ StopReturned
    /\ nStarts = 2
    /\ ctxCancelled = {ObsCtx, 1, 2}
    /\ \A f \in Factories : factoryStarts[f] > 0

\* C6: an informer factory is started only after the underlying controller has
\* set up its queue.
C6_FactoriesAfterQueue ==
    \A f \in Factories : factoryStarts[f] > 0 => queueReady

\* C7: each informer factory has its Start invoked at most once, and exactly
\* once by the time the first Start() call has returned.
C7_FactoriesStartedOnce ==
    \A f \in Factories :
        /\ factoryStarts[f] <= 1
        /\ StartReturned => factoryStarts[f] = 1

\* C7 witness: a second Start() call has returned and each factory was started once.
C7_Witness ==
    /\ nStarts = 2
    /\ pcStart = "idle"
    /\ \A f \in Factories : factoryStarts[f] = 1

\* C8: when NewManagedDhController has returned its handle, all five watches
\* are registered and no informer factory has been started; no factory is ever
\* started before all five watches are registered.
C8_WatchesBeforeFactories ==
    /\ (HandleOk /\ nStarts = 0) =>
          /\ Range(watches) = AllWatches
          /\ \A f \in Factories : factoryStarts[f] = 0
    /\ (\E f \in Factories : factoryStarts[f] > 0) => Range(watches) = AllWatches

\* C8 witness: the constructor has returned its handle and Start was not called yet.
C8_Witness ==
    /\ HandleOk
    /\ nStarts = 0
    /\ Len(watches) = 5

\* The start of the underlying controller has failed in some goroutine of Start.
CtrlStartFailed == \E g \in StartIds : gor[g] = "failed"

\* A step of the notification path: the call, its delivery, the Reconcile it causes.
NotifyStep == pcObs' # pcObs /\ chanClosed' = chanClosed

C10_NotFoundNotRequeued ==
    (workerPc = "returned" /\ getOutcome = "notfound") =>
        /\ reconcileErr = "nil"
        /\ ~Requeued

\* C11: every failure while NewManagedDhController constructs the controller
\* (NewUnmanaged, a cluster client, a watch) is returned as an error with a nil
\* handle; no such failure panics: the constructor never dies in a
\* NewForConfigOrDie call.
C11_ConstructionNeverPanics ==
    /\ pcNew # "panicked"
    /\ panic # "NewForConfigOrDie"

\* C12: when the read of the observer fails with an error other than
\* not-found, Reconcile returns that error, the request is requeued, and the
\* pass manages no route.
C12_GetErrorReturned ==
    (workerPc = "returned" /\ getOutcome = "error") =>
        /\ reconcileErr = "get"
        /\ Requeued
        /\ pass.managedNs = "none"

\* C12 witness: a Reconcile whose read failed with such an error has returned.
C12_Witness ==
    /\ workerPc = "returned"
    /\ getOutcome = "error"
    /\ reconcileErr = "get"

\* C18: the managementState that a Reconcile hands to the route management is
\* one of Managed, Unmanaged and Removed, the omitted value having been
\* replaced by Managed: both route specs being required and the schema
\* admitting these three values only, no other value is seen by a reconcile.
C18_OnlySchemaStates ==
    pass.managedNs # "none" => pass.mgmt \in ManagementStates

\* C20: whatever key the request carries, Reconcile reads the observer at the
\* namespaced name fixed at construction, and what it manages is the vsystem
\* route of that resource in the namespace fixed at construction.
C20_FixedTarget ==
    /\ workerPc \in {"manage", "returned"} => pass.read = NmName
    /\ pass.managedNs \in {"none", DhNamespace}
    /\ (workerPc = "returned" /\ reconcileErr # "get") => pass.managedNs = DhNamespace

\* C20 witness: a request with the key of a watched object of the DataHub
\* namespace was reconciled: the observer was read and its route managed.
C20_Witness ==
    /\ workerPc = "returned"
    /\ curKey = "watched"
    /\ pass.read = NmName
    /\ pass.managedNs = DhNamespace

\* C19: the namespaces of the manager's cache follow the sdi-namespace and
\* slcb-namespace settings: with both specified the cache holds the operator
\* namespace, the SDI namespace and the SLCB namespace and nothing else; with
\* either unspecified all namespaces are watched.
C19_CacheScopeFollowsFlags ==
    ManagerCreated =>
        IF boot.sdiNamespace # "" /\ boot.slcbNamespace # ""
        THEN CacheScope = {boot.namespace, boot.sdiNamespace, boot.slcbNamespace}
        ELSE AllNamespaces \in CacheScope

\* C15: for a route whose managementState is Unmanaged a pass creates,
\* updates and deletes nothing, whether the route exists or not, and the
\* conditions of the route status are empty afterwards.
C15_UnmanagedUntouched ==
    (pol.pc = "done" /\ pol.state = "Unmanaged") =>
        /\ pol.action = "noop"
        /\ pol.existsAfter = pol.exists
        /\ pol.conditions = <<>>

\* C15 witness: a pass over an existing Unmanaged route whose status carried a
\* condition.
C15_Witness ==
    /\ pol.pc = "done"
    /\ pol.state = "Unmanaged"
    /\ pol.exists
    /\ pol.before # <<>>
    /\ pol.action = "noop"

\* C16: for a route whose managementState is Removed, a pass deletes the route
\* if it exists, created by this system or not, and leaves the conditions
\* empty on success and Degraded=True on failure; if the route does not exist
\* nothing is done and no conditions are set.
C16_RemovedDeleted ==
    (pol.pc = "done" /\ pol.state = "Removed") =>
        IF pol.exists
        THEN /\ pol.action = "delete"
             /\ pol.apiOk => (~pol.existsAfter /\ pol.conditions = <<>>)
             /\ ~pol.apiOk => pol.conditions = <<Condition("Degraded", "True")>>
        ELSE /\ pol.action = "noop"
             /\ ~pol.existsAfter
             /\ pol.conditions = <<>>

\* C16 witness: an existing route without ownership marker, whose status
\* carried a condition, was removed with success.
C16_Witness ==
    /\ pol.pc = "done"
    /\ pol.state = "Removed"
    /\ pol.exists
    /\ ~pol.owned
    /\ pol.apiOk
    /\ pol.before # <<>>
    /\ ~pol.existsAfter

\* C17: claim exclusivity.  Of the observers that target the namespace of a
\* DataHub, once each has been reconciled exactly one has its ManagedReference
\* set; every other one has it unset, carries Backup=True and not Degraded,
\* and has mutated no route; and at no time do two observers have a reference.
C17_ClaimExclusive ==
    /\ Cardinality(Referring) <= 1
    /\ ~claim.workload => Referring = {}
    /\ (claim.workload /\ \A i \in Observers : claim.obs[i].reconciled) =>
          /\ Cardinality(Referring) = 1
          /\ \A i \in Observers \ Referring :
                /\ Condition("Backup", "True") \in claim.obs[i].conditions
                /\ Condition("Degraded", "True") \notin claim.obs[i].conditions
                /\ ~claim.obs[i].mutated

\* C17 witness: every observer was reconciled; the winner refers to the
\* DataHub and has mutated its route, another one is a backup.
C17_Witness ==
    /\ claim.workload
    /\ \A i \in Observers : claim.obs[i].reconciled
    /\ \E i \in Referring : claim.obs[i].mutated
    /\ \E i \in Observers \ Referring :
          Condition("Backup", "True") \in claim.obs[i].conditions

\* C14: ensure is idempotent.  At any time a namespace has at most one live
\* sub-controller, and it has one exactly when the registry holds a handle
\* for it; an ensure that finds a handle for its namespace returns without
\* constructing or starting anything, also when several parent reconciles
\* are in ensure for the same namespace.
C14_EnsureIdempotent ==
    /\ [](\A ns \in TargetNamespaces :
            /\ reg.live[ns] <= 1
            /\ reg.live[ns] = 1 <=> ns \in reg.handles)
    /\ [][\A p \in Parents :
            (EnsureFoundHandle(p) /\ reg'.calls[p] # reg.calls[p]) =>
                /\ reg'.live = reg.live
                /\ reg'.handles = reg.handles
                /\ reg'.calls[p].pc = "return"]_vars

\* C14 witness: two parent reconciles have called ensure for the same
\* namespace, which has a handle and one live sub-controller; the second call
\* has found the handle.
C14_Witness ==
    /\ reg.live["ns-a"] = 1
    /\ "ns-a" \in reg.handles
    /\ reg.calls[1] = [pc |-> "idle", ns |-> "ns-a"]
    /\ reg.calls[2] = [pc |-> "return", ns |-> "ns-a"]

\* C13: two sub-controllers created for different namespaces are independent:
\* whatever is done to the first once it is constructed (Stop, a slow or
\* blocked Reconcile or ReconcileObs), the channel of the second stays open,
\* its contexts stay uncancelled, and its factories and its delivery of
\* notifications keep running.
C13_PeerUnaffected ==
    HandleOk =>
        /\ ~peer.chanClosed
        /\ ~peer.ctxCancelled
        /\ peer.running

\* NewManagedDhController has returned an error (and a nil handle).
ConstructionFailed == pcNew = "failed"

\* C23: when NewManagedDhController returns an error it leaves nothing
\* running: the handle is nil, so that nothing is ever started or stopped
\* through it; obsContext, if it was created, is cancelled by the step that
\* fails; and no informer factory has been started.
C23_FailedConstructionLeavesNothing ==
    /\ [](ConstructionFailed =>
            /\ ~HandleOk
            /\ nStarts = 0 /\ ~isStarted /\ ~chanClosed
            /\ \A f \in Factories : factoryStarts[f] = 0 /\ ~FactoryRunning(f)
            /\ \A g \in StartIds : gor[g] = "none")
    /\ [][(ConstructionFailed' /\ pcNew # "newUnmanaged") => ObsCtx \in ctxCancelled']_vars

\* C23 witness: the watch of the Routes has failed after three factories were
\* appended and four watches registered; obsContext is cancelled.
C23_Witness ==
    /\ ConstructionFailed
    /\ Len(unstartedFactories) = 3
    /\ Len(watches) = 4
    /\ ObsCtx \in ctxCancelled

\* C26: an error of the route management is what Reconcile returns as its
\* error, so that the request is requeued; the Result that Reconcile returns
\* is the zero value on every path, so that a requeue is asked for by a
\* non-nil error only.
C26_ManageErrorReturned ==
    /\ pass.rs = ZeroResult
    /\ ~RequeueByResult
    /\ workerPc = "returned" =>
          /\ pass.manageErr = "err" => (reconcileErr = "err" /\ Requeued)
          /\ pass.manageErr = "nil" => (reconcileErr = "nil" /\ ~Requeued)

\* C26 witness: a Reconcile has returned the error of the route management.
C26_Witness ==
    /\ workerPc = "returned"
    /\ pass.manageErr = "err"
    /\ reconcileErr = "err"

\* The underlying controller's Start returns in the goroutine of a Start call:
\* with an error (failed, or started more than once) or after its shutdown.
CtrlTerminates ==
    \E g \in StartIds : gor'[g] # gor[g] /\ gor'[g] \in {"failed", "rejected", "exited"}

\* C25: Start never blocks on the underlying controller: a Start call in
\* progress returns whatever the goroutine of the underlying controller does;
\* when the underlying controller fails to start or terminates, nothing of
\* the sub-controller changes (the error is logged): it stays marked started
\* and no factory is stopped; and the started mark is never taken back.
C25_StartNeverBlocks ==
    /\ (pcStart = "spawned") ~> (pcStart = "idle" \/ Panicked)
    /\ [][CtrlTerminates => UNCHANGED <<pcNew, ctrlVars, panic>>]_vars
    /\ [][isStarted => isStarted']_vars

\* C25 witness: Start has returned, the start of the underlying controller
\* has failed, and the sub-controller is marked started with its factories
\* running.
C25_Witness ==
    /\ StartReturned
    /\ gor[1] = "failed"
    /\ isStarted
    /\ \A f \in Factories : FactoryRunning(f)

\* A context of the sub-controller (obsContext or the ctx_ of a Start call) is cancelled.
OwnCtxCancelled == \E c \in {ObsCtx} \cup StartIds : c \in ctxCancelled' \ ctxCancelled

\* C24: the contexts of the sub-controller are cancelled by Stop or by a
\* failed construction only; the cancellation of the context passed to Start
\* cancels none of them and stops neither the underlying controller nor an
\* informer factory.
C24_OnlyStopCancels ==
    /\ [][OwnCtxCancelled => ((~chanClosed /\ chanClosed') \/ ConstructionFailed')]_vars
    /\ [][(CallerCtx \in ctxCancelled' \ ctxCancelled) =>
             /\ ~OwnCtxCancelled
             /\ UNCHANGED <<runVars, workerPc>>
             /\ \A f \in Factories : FactoryRunning(f) => FactoryRunning(f)']_vars

\* C24 witness: the context passed to Start is cancelled; the underlying
\* controller and the factories run on.
C24_Witness ==
    /\ CallerCtx \in ctxCancelled
    /\ StartReturned
    /\ ~chanClosed
    /\ gor[1] = "running"
    /\ workerPc = "get"
    /\ \A f \in Factories : FactoryRunning(f)

\* C27: the operator's namespace is the value of the namespace flag when the
\* flag is given and the value of the NAMESPACE variable otherwise; if it is
\* empty the process exits with status 1 and no manager is ever created.
C27_NamespaceResolved ==
    /\ boot.pc \notin {"off", "start"} =>
          boot.namespace = (IF boot.nsFlagGiven THEN boot.nsFlag ELSE boot.nsEnv)
    /\ (boot.pc \notin {"off", "start", "parsed"} /\ boot.namespace = "") =>
          /\ boot.pc = "exit"
          /\ boot.exitCode = 1
    /\ boot.namespace = "" => boot.managers = 0

\* C27 witness: the flag was given with an empty value while NAMESPACE was
\* set, and the process has exited with status 1.
C27_Witness ==
    /\ boot.pc = "exit"
    /\ boot.nsFlagGiven /\ boot.nsFlag = "" /\ boot.nsEnv = "operator"
    /\ boot.exitCode = 1
    /\ boot.managers = 0

\* The absolute difference between the minor number of the desired OCP
\* release and the minor number of the oc client.
MinorDistance ==
    IF inst.desired.minor >= inst.client.minor
    THEN inst.desired.minor - inst.client.minor
    ELSE inst.client.minor - inst.desired.minor

\* C28: the version gate of the installer script depends on the absolute
\* difference d of the two minor numbers only: for d of 0 or 1 the script goes
\* on without a message, for d of 2 it prints a warning and goes on, for d of
\* 3 or more it prints an error and exits with status 1, and nothing is
\* created or applied.
C28_VersionGate ==
    /\ [](inst.pc \notin {"off", "gate"} =>
            /\ MinorDistance \in {0, 1} => inst.stderr = "none"
            /\ MinorDistance = 2 => inst.stderr = "warning"
            /\ MinorDistance >= 3 =>
                  /\ inst.stderr = "error"
                  /\ inst.pc = "exit"
                  /\ inst.exitCode = 1
                  /\ inst.applied = {})
    /\ [][(inst.pc = "gate" /\ inst'.pc # "gate") =>
             IF MinorDistance <= 2
             THEN inst'.pc = "passed" /\ inst'.exitCode = 0
             ELSE inst'.pc = "exit"]_vars

\* C28 witness: the desired release is 4.4 and the client is 3.1: the script
\* has printed the error and exited with status 1, nothing applied.
C28_Witness ==
    /\ inst.pc = "exit"
    /\ inst.desired = [major |-> 4, minor |-> 4]
    /\ inst.client = [major |-> 3, minor |-> 1]
    /\ inst.stderr = "error"
    /\ inst.exitCode = 1
    /\ inst.applied = {}

\* C22: within one sub-controller at most one Reconcile is executing at any
\* time, also while requests with other keys wait: the underlying controller
\* has the single default worker whatever MaxConcurrentReconciles the caller
\* puts into the options of NewManagedDhController.
C22_SingleWorker ==
    /\ Cardinality(Executing) <= 1
    /\ pool.pc = "running" => pool.workers = 1

\* C22 witness: the caller asked for two workers; one Reconcile is executing
\* while a request with another key waits in the queue.
C22_Witness ==
    /\ pool.pc = "running"
    /\ pool.options = 2
    /\ pool.busy[1] = "route"
    /\ "chan" \in pool.queue

\* C21: an event for a Service enqueues a request only if the Service carries
\* both labels app-component=vsystem and app=vsystem, an event for a Secret
\* only if the Secret has the name of the vsystem CA bundle secret; events
\* for DataHubs and Routes always enqueue; and the handler does nothing but
\* enqueue the request of the object.
C21_WatchFiltering ==
    /\ [](ev.pc = "handled" =>
            /\ ev.kind = "service" =>
                  (ev.enqueued # <<>> <=> (ev.appComponent = "vsystem" /\ ev.app = "vsystem"))
            /\ ev.kind = "secret" =>
                  (ev.enqueued # <<>> <=> ev.name = VsystemCaBundleSecretName)
            /\ ev.kind \in {"datahub", "route"} => ev.enqueued # <<>>
            /\ ev.enqueued \in {<<>>, <<[namespace |-> DhNamespace, name |-> ev.name]>>})
    /\ [][ev' # ev => UNCHANGED <<pcNew, ctrlVars, runVars, pcObs, queueVars, panic>>]_vars

\* C21 witness: the event of a Service with only one of the two labels was
\* handled and nothing was enqueued.
C21_Witness ==
    /\ ev.pc = "handled"
    /\ ev.kind = "service"
    /\ ev.appComponent = "vsystem"
    /\ ev.app = "other"
    /\ ev.enqueued = <<>>

====
